---- MODULE Spec2Model ----
(***************************************************************************)
(* Session / robot-lock core of the Tumbller robot control backend.        *)
(*                                                                         *)
(*   app/services/session.py   the two in-memory mappings and their        *)
(*                             operations                                  *)
(*   app/api/v1/access.py      purchase_access, check_access               *)
(*   app/api/v1/robot.py       motor/camera commands, get_robot_status     *)
(*   app/api/deps.py           require_session                             *)
(*                                                                         *)
(* Time is counted in ticks.  A request handler runs on the event loop     *)
(* without interruption between two awaits, so one action is one such      *)
(* run; an awaited call may take any time.  Every call of                  *)
(* datetime.utcnow() inside a run is a separate clock read: a run may see  *)
(* the clock step once between two of its reads.                           *)
(* An Optional value is a set with no element (None) or one element.       *)
(***************************************************************************)
EXTENDS Integers, FiniteSets, Sequences, TLC

\* ---- bounds ------------------------------------------------------------
\* the resolution of the clock: ticks in a second
TicksPerSecond == 2
\* settings.session_duration_minutes, in ticks (a configured value)
SessionDuration == 3
\* the clock stops here
MaxTime == 4
\* requests in flight at the same time
Slots == {1, 2}

\* ---- identifiers --------------------------------------------------------
\* X-Wallet-Address values the clients send: one in mixed case and longer
\* than the masking threshold, and a short one
RawWallets == {"0xAA11BB22CC33", "0xb0b"}
\* robot_host values the clients send
RawRobots == {"Rover-A", "rover-b"}
\* the X-Wallet-Address header is absent (or empty: both are falsy)
NoHeader == ""
\* the five motor handlers differ in this string only; the model sends two
MotorCommands == {"forward", "stop"}
\* request.state.x402_tx_hash, when the payment middleware has set it
TxHash == "0xtx"

None == {}
Some(x) == {x}
The(o) == CHOOSE x \in o : TRUE

\* str.lower(), character by character
UpperCase == <<"A", "B", "C", "D", "E", "F", "G", "H", "I", "J", "K", "L", "M",
               "N", "O", "P", "Q", "R", "S", "T", "U", "V", "W", "X", "Y", "Z">>
LowerCase == <<"a", "b", "c", "d", "e", "f", "g", "h", "i", "j", "k", "l", "m",
               "n", "o", "p", "q", "r", "s", "t", "u", "v", "w", "x", "y", "z">>
LowerOf == [c \in {UpperCase[i] : i \in 1 .. 26} |->
              LowerCase[CHOOSE i \in 1 .. 26 : UpperCase[i] = c]]
LowerChar(c) == IF c \in DOMAIN LowerOf THEN LowerOf[c] ELSE c
RECURSIVE str_lower(_)
str_lower(x) ==
  IF Len(x) = 0 THEN x
  ELSE LowerChar(SubSeq(x, 1, 1)) \o str_lower(SubSeq(x, 2, Len(x)))

LowerWallets == {str_lower(w) : w \in RawWallets}
LowerRobots == {str_lower(r) : r \in RawRobots}

\* x.lower() for the identifiers that occur, computed once
LowerTable ==
  [x \in RawWallets \cup LowerWallets \cup RawRobots \cup LowerRobots \cup {NoHeader}
     |-> str_lower(x)]
lower(x) == LowerTable[x]

VARIABLES
  now,              \* datetime.utcnow()
  sessions,         \* _sessions: wallet (lower case) -> SessionData
  robot_locks,      \* _robot_locks: robot -> wallet
  payment_enabled,  \* settings.payment_enabled
  payment_address,  \* settings.payment_address
  x402_importable,  \* whether the package x402 can be imported
  slots,            \* the requests in flight
  last,             \* the response sent by the step that led here, if any
  call              \* the direct call of a session.py function that led here

\* what create_app reads when the process starts; no request changes it
config == <<payment_enabled, payment_address, x402_importable>>

vars == <<now, sessions, robot_locks, config, slots, last, call>>

\* ---- dict helpers -------------------------------------------------------
\* del d[k]
Del(d, k) == [x \in (DOMAIN d) \ {k} |-> d[x]]
\* d[k] = v
Put(d, k, v) == [x \in (DOMAIN d) \cup {k} |-> IF x = k THEN v ELSE d[x]]
EmptyDict == [x \in {} |-> {}]

\* ---- app/services/session.py -------------------------------------------
SessionData(w, r, created, expires, tx) ==
  [wallet_address |-> w, robot_host |-> r, created_at |-> created,
   expires_at |-> expires, payment_tx |-> tx]

\* (mutant) the entry is deleted without looking whether there is one; ret
\* stands for the exception raised
cleanup_session_unguarded(S, L, wallet_address) ==
  IF lower(wallet_address) \in DOMAIN S
  THEN [s |-> Del(S, lower(wallet_address)),
        l |-> IF /\ S[lower(wallet_address)].robot_host \in DOMAIN L
                 /\ L[S[lower(wallet_address)].robot_host] = lower(wallet_address)
              THEN Del(L, S[lower(wallet_address)].robot_host)
              ELSE L,
        ret |-> None]
  ELSE [s |-> S, l |-> L, ret |-> Some("KeyError")]

\* (mutant) the session is removed and the lock of its robot is left
cleanup_session_keep_lock(S, L, wallet_address) ==
  IF lower(wallet_address) \in DOMAIN S
  THEN [s |-> Del(S, lower(wallet_address)), l |-> L, ret |-> None]
  ELSE [s |-> S, l |-> L, ret |-> None]

\* the result of a call: the mappings after it and what it returns.
\* _cleanup_session(wallet_address)
cleanup_session(S, L, wallet_address) ==
  LET wallet_lower == lower(wallet_address) IN
  IF wallet_lower \in DOMAIN S
  THEN [s |-> Del(S, wallet_lower),
        l |-> IF /\ S[wallet_lower].robot_host \in DOMAIN L
                 /\ L[S[wallet_lower].robot_host] = wallet_lower
              THEN Del(L, S[wallet_lower].robot_host)
              ELSE L,
        ret |-> None]
  ELSE [s |-> S, l |-> L, ret |-> None]

\* (mutant) the expiry test taken as "at or after expires_at"
get_session_at_or_after(S, L, t, wallet_address) ==
  IF lower(wallet_address) \notin DOMAIN S
  THEN [s |-> S, l |-> L, ret |-> None]
  ELSE IF t >= S[lower(wallet_address)].expires_at
       THEN cleanup_session(S, L, lower(wallet_address))
       ELSE [s |-> S, l |-> L, ret |-> Some(S[lower(wallet_address)])]

\* (mutant) a stored session is returned whatever the clock says
get_session_no_expiry(S, L, t, wallet_address) ==
  IF lower(wallet_address) \notin DOMAIN S
  THEN [s |-> S, l |-> L, ret |-> None]
  ELSE [s |-> S, l |-> L, ret |-> Some(S[lower(wallet_address)])]

\* get_session(wallet_address), reading the clock as t
get_session(S, L, t, wallet_address) ==
  IF lower(wallet_address) \notin DOMAIN S
  THEN [s |-> S, l |-> L, ret |-> None]
  ELSE IF t > S[lower(wallet_address)].expires_at
       THEN cleanup_session(S, L, lower(wallet_address))
       ELSE [s |-> S, l |-> L, ret |-> Some(S[lower(wallet_address)])]

\* (mutant) the previous lock of the wallet is not released
create_session_keep_lock(S, L, t, wallet_address, robot_host, payment_tx) ==
  LET wallet_lower == lower(wallet_address)
      robot_lower == lower(robot_host)
      session == SessionData(wallet_lower, robot_lower, t, t + SessionDuration,
                             payment_tx)
  IN [s |-> Put(S, wallet_lower, session),
      l |-> Put(L, robot_lower, wallet_lower),
      ret |-> session]

\* (mutant) a session the wallet already has is kept (dict.setdefault)
create_session_keep_old(S, L, t, wallet_address, robot_host, payment_tx) ==
  LET wallet_lower == lower(wallet_address)
      robot_lower == lower(robot_host)
      L1 == IF /\ wallet_lower \in DOMAIN S
               /\ S[wallet_lower].robot_host \in DOMAIN L
               /\ L[S[wallet_lower].robot_host] = wallet_lower
            THEN Del(L, S[wallet_lower].robot_host)
            ELSE L
      session == SessionData(wallet_lower, robot_lower, t, t + SessionDuration,
                             payment_tx)
  IN [s |-> IF wallet_lower \in DOMAIN S THEN S ELSE Put(S, wallet_lower, session),
      l |-> Put(L1, robot_lower, wallet_lower),
      ret |-> session]

\* (mutant) the session of the robot's previous holder is removed
create_session_evict(S, L, t, wallet_address, robot_host, payment_tx) ==
  LET wallet_lower == lower(wallet_address)
      robot_lower == lower(robot_host)
      S1 == IF robot_lower \in DOMAIN L /\ L[robot_lower] # wallet_lower
            THEN Del(S, L[robot_lower])
            ELSE S
      L1 == IF /\ wallet_lower \in DOMAIN S
               /\ S[wallet_lower].robot_host \in DOMAIN L
               /\ L[S[wallet_lower].robot_host] = wallet_lower
            THEN Del(L, S[wallet_lower].robot_host)
            ELSE L
      session == SessionData(wallet_lower, robot_lower, t, t + SessionDuration,
                             payment_tx)
  IN [s |-> Put(S1, wallet_lower, session),
      l |-> Put(L1, robot_lower, wallet_lower),
      ret |-> session]

\* (mutant) the session is stored under the wallet as it was sent
create_session_raw_key(S, L, t, wallet_address, robot_host, payment_tx) ==
  LET wallet_lower == lower(wallet_address)
      robot_lower == lower(robot_host)
      L1 == IF /\ wallet_lower \in DOMAIN S
               /\ S[wallet_lower].robot_host \in DOMAIN L
               /\ L[S[wallet_lower].robot_host] = wallet_lower
            THEN Del(L, S[wallet_lower].robot_host)
            ELSE L
      session == SessionData(wallet_lower, robot_lower, t, t + SessionDuration,
                             payment_tx)
  IN [s |-> Put(S, wallet_address, session),
      l |-> Put(L1, robot_lower, wallet_lower),
      ret |-> session]

\* (mutant) the session is stored and the lock of its robot is not set
create_session_no_lock(S, L, t, wallet_address, robot_host, payment_tx) ==
  LET wallet_lower == lower(wallet_address)
      robot_lower == lower(robot_host)
      L1 == IF /\ wallet_lower \in DOMAIN S
               /\ S[wallet_lower].robot_host \in DOMAIN L
               /\ L[S[wallet_lower].robot_host] = wallet_lower
            THEN Del(L, S[wallet_lower].robot_host)
            ELSE L
      session == SessionData(wallet_lower, robot_lower, t, t + SessionDuration,
                             payment_tx)
  IN [s |-> Put(S, wallet_lower, session),
      l |-> L1,
      ret |-> session]

\* (mutant) a wallet that has a session stored keeps its created_at
create_session_keep_created(S, L, t, wallet_address, robot_host, payment_tx) ==
  LET wallet_lower == lower(wallet_address)
      robot_lower == lower(robot_host)
      L1 == IF /\ wallet_lower \in DOMAIN S
               /\ S[wallet_lower].robot_host \in DOMAIN L
               /\ L[S[wallet_lower].robot_host] = wallet_lower
            THEN Del(L, S[wallet_lower].robot_host)
            ELSE L
      session == SessionData(wallet_lower, robot_lower,
                             IF wallet_lower \in DOMAIN S
                             THEN S[wallet_lower].created_at
                             ELSE t,
                             t + SessionDuration, payment_tx)
  IN [s |-> Put(S, wallet_lower, session),
      l |-> Put(L1, robot_lower, wallet_lower),
      ret |-> session]

\* create_session(wallet_address, robot_host, payment_tx), reading the clock as t
create_session(S, L, t, wallet_address, robot_host, payment_tx) ==
  LET expires_at == t + SessionDuration
      wallet_lower == lower(wallet_address)
      robot_lower == lower(robot_host)
      L1 == IF /\ wallet_lower \in DOMAIN S
               /\ S[wallet_lower].robot_host \in DOMAIN L
               /\ L[S[wallet_lower].robot_host] = wallet_lower
            THEN Del(L, S[wallet_lower].robot_host)
            ELSE L
      session == SessionData(wallet_lower, robot_lower, t, expires_at, payment_tx)
  IN [s |-> Put(S, wallet_lower, session),
      l |-> Put(L1, robot_lower, wallet_lower),
      ret |-> session]

\* has_valid_session(wallet_address)
has_valid_session(S, L, t, wallet_address) ==
  [get_session(S, L, t, wallet_address) EXCEPT !.ret = (@ # None)]

\* int(timedelta.total_seconds()) of a time difference d in ticks: the whole
\* seconds, truncated towards zero
int_total_seconds(d) ==
  IF d >= 0 THEN d \div TicksPerSecond ELSE -((-d) \div TicksPerSecond)

\* timedelta(minutes=m), in ticks
SecondsPerMinute == 60
timedelta_minutes(m) == m * SecondsPerMinute * TicksPerSecond

\* Settings.session_duration_minutes, as it is when the environment does
\* not set it
session_duration_minutes == 10

\* (mutant) the seconds are rounded up
get_remaining_seconds_ceil(S, L, t1, t2, wallet_address) ==
  [get_session(S, L, t1, wallet_address) EXCEPT
     !.ret = IF @ = None
             THEN 0
             ELSE IF The(@).expires_at - t2 > 0
                  THEN (The(@).expires_at - t2 + TicksPerSecond - 1)
                         \div TicksPerSecond
                  ELSE 0]

\* get_remaining_seconds(wallet_address): get_session reads the clock as t1,
\* the subtraction reads it as t2
get_remaining_seconds(S, L, t1, t2, wallet_address) ==
  [get_session(S, L, t1, wallet_address) EXCEPT
     !.ret = IF @ = None
             THEN 0
             ELSE IF int_total_seconds(The(@).expires_at - t2) > 0
                  THEN int_total_seconds(The(@).expires_at - t2)
                  ELSE 0]

\* (mutant) the lock table is not consulted
is_robot_available_open(S, L, t, robot_host) ==
  [s |-> S, l |-> L, ret |-> TRUE]

\* (mutant) the robot name is looked up as it was sent, not in lower case
is_robot_available_raw(S, L, t, robot_host) ==
  IF robot_host \notin DOMAIN L
  THEN [s |-> S, l |-> L, ret |-> TRUE]
  ELSE [get_session(S, L, t, L[robot_host]) EXCEPT !.ret = (@ = None)]

\* (mutant) a locked robot is unavailable, whether or not the lock holder's
\* session has expired
is_robot_available_locked(S, L, t, robot_host) ==
  [s |-> S, l |-> L, ret |-> (lower(robot_host) \notin DOMAIN L)]

\* is_robot_available(robot_host)
is_robot_available(S, L, t, robot_host) ==
  IF lower(robot_host) \notin DOMAIN L
  THEN [s |-> S, l |-> L, ret |-> TRUE]
  ELSE [get_session(S, L, t, L[lower(robot_host)]) EXCEPT !.ret = (@ = None)]

\* get_robot_lock_holder(robot_host)
get_robot_lock_holder(S, L, t, robot_host) ==
  IF lower(robot_host) \notin DOMAIN L
  THEN [s |-> S, l |-> L, ret |-> None]
  ELSE [get_session(S, L, t, L[lower(robot_host)]) EXCEPT
          !.ret = IF @ = None THEN None ELSE Some(L[lower(robot_host)])]

\* get_session_robot(wallet_address)
get_session_robot(S, L, t, wallet_address) ==
  [get_session(S, L, t, wallet_address) EXCEPT
     !.ret = IF @ = None THEN None ELSE Some(The(@).robot_host)]

\* ---- requests in flight --------------------------------------------------
\* a slot holds one request: its inputs and where its handler is suspended.
\* raced is history, not program state: while this purchase was suspended a
\* purchase of the same robot by another wallet has succeeded, with a
\* session that expires at the time raced holds. paid is history too: the
\* x402 middleware has accepted the payment of this request
IdleSlot ==
  [kind |-> "none", pc |-> "idle", wallet |-> NoHeader, robot |-> "",
   cmd |-> "", tx |-> None, raced |-> None, paid |-> FALSE]
Request(kind, pc, wallet, robot, cmd, tx) ==
  [kind |-> kind, pc |-> pc, wallet |-> wallet, robot |-> robot, cmd |-> cmd,
   tx |-> tx, raced |-> None, paid |-> FALSE]

Pending(i) == slots[i].pc # "idle"
Free(i) == ~Pending(i)

\* a response, with the request it answers
Answer(kind, wallet, robot, raced, response) ==
  [kind |-> kind, wallet |-> wallet, robot |-> robot, raced |-> raced,
   paid |-> FALSE, resp |-> Some(response)]
NoResponse ==
  [kind |-> "none", wallet |-> NoHeader, robot |-> "", raced |-> None,
   paid |-> FALSE, resp |-> None]
Respond(req, response) ==
  last' = [Answer(req.kind, req.wallet, req.robot, req.raced, response)
             EXCEPT !.paid = req.paid]
Silent == last' = NoResponse

\* a call with its arguments and result; stored is the _sessions entry the
\* call looks up (of the wallet, or of the robot's lock holder) as it was
\* before the call
Call(op, wallet, robot, stored, ret) ==
  [op |-> op, wallet |-> wallet, robot |-> robot, stored |-> stored, ret |-> ret]
NoCall == Call("none", NoHeader, "", None, None)

CanTick == now < MaxTime

\* the value of the k-th clock read of a run in which the clock steps right
\* before read number adv (adv = 0: the clock does not step during the run)
Read(adv, k) == IF adv # 0 /\ k >= adv THEN now + 1 ELSE now
Advance(adv) ==
  /\ adv # 0 => CanTick
  /\ now' = IF adv # 0 THEN now + 1 ELSE now

HTTPException(status_code, detail) ==
  [status_code |-> status_code, detail |-> detail]

\* SessionResponse(active=False)
InactiveSession ==
  [active |-> FALSE, robot_host |-> None, expires_at |-> None,
   remaining_seconds |-> None]
SessionResponse(session, remaining) ==
  [active |-> TRUE, robot_host |-> Some(session.robot_host),
   expires_at |-> Some(session.expires_at),
   remaining_seconds |-> Some(remaining)]

\* ---- app/main.py: create_app ------------------------------------------------
PaymentAddress == "0xPAYEE"

\* create_app(): TRUE when it installs x402_with_cors_support, the middleware
\* that puts require_payment in front of POST /api/v1/access/purchase. The
\* ImportError of the x402 package and a missing address are answered with
\* a warning, and nothing is installed
create_app(enabled, address, importable) ==
  IF enabled /\ (IF enabled THEN address ELSE "") # ""
  THEN importable
  ELSE FALSE

x402_installed == create_app(payment_enabled, payment_address, x402_importable)

\* x402_with_cors_support(request, call_next) for a POST: require_payment
\* answers 402 unless it accepts the payment the request carries
PaymentRequired == HTTPException(402, "Payment Required")
x402_with_cors_support(payment) == IF payment THEN None ELSE Some(PaymentRequired)

\* ---- app/api/v1/access.py: POST /purchase --------------------------------
\* the request arrives, passes the middleware where one is installed, and
\* the handler awaits check_motor_online(robot_host)
PurchaseStart(i, wallet, robot, tx, payment) ==
  /\ Free(i)
  /\ tx # None => payment_enabled
  /\ IF x402_installed /\ x402_with_cors_support(payment) # None
     THEN /\ Respond(Request("purchase", "idle", wallet, robot, "", tx),
                     The(x402_with_cors_support(payment)))
          /\ UNCHANGED slots
     ELSE /\ slots' = [slots EXCEPT ![i] =
                 [Request("purchase", "await_motor", wallet, robot, "", tx)
                    EXCEPT !.paid = x402_installed]]
          /\ Silent
  /\ call' = NoCall
  /\ UNCHANGED <<now, sessions, robot_locks, config>>

\* return PurchaseResponse(...): r is the result of get_remaining_seconds
purchase_response(session, r, payment_tx) ==
  [s |-> r.s, l |-> r.l,
   resp |-> [status_code |-> 200, status |-> "success",
             session |-> SessionResponse(session, r.ret),
             payment_tx |-> payment_tx]]

\* (mutant) a busy robot is taken from its holder
purchase_access_checked_force(a, x_wallet_address, robot_host, payment_tx, t2) ==
  [create_session(IF lower(robot_host) \in DOMAIN a.l
                  THEN Del(a.s, a.l[lower(robot_host)])
                  ELSE a.s,
                  a.l, t2, x_wallet_address, robot_host, payment_tx)
     EXCEPT !.ret = Some(@)]

\* purchase_access from the result a of is_robot_available on: ret is the
\* session created, or None where the handler raises
purchase_access_checked(a, x_wallet_address, robot_host, payment_tx, t2) ==
  IF ~a.ret
  THEN [s |-> a.s, l |-> a.l, ret |-> None]
  ELSE [create_session(a.s, a.l, t2, x_wallet_address, robot_host, payment_tx)
          EXCEPT !.ret = Some(@)]

\* purchase_access from the result c of the check and create_session on
purchase_access_created(c, x_wallet_address, robot_host, payment_tx, t3, t4) ==
  IF c.ret = None
  THEN [s |-> c.s, l |-> c.l,
        resp |-> HTTPException(409, "Robot '" \o robot_host
                                 \o "' is currently in use by another user.")]
  ELSE purchase_response(The(c.ret),
                         get_remaining_seconds(c.s, c.l, t3, t4, x_wallet_address),
                         payment_tx)

\* (mutant) the caller's own session is released before the availability
\* check
purchase_access_release_first(S, L, x_wallet_address, robot_host, payment_tx, motor_online, t1, t2, t3, t4) ==
  IF ~motor_online
  THEN [s |-> S, l |-> L,
        resp |-> HTTPException(503, "Robot '" \o robot_host
                                    \o "' is offline. Cannot create session.")]
  ELSE purchase_access_created(
         purchase_access_checked(
           is_robot_available(cleanup_session(S, L, x_wallet_address).s,
                              cleanup_session(S, L, x_wallet_address).l,
                              t1, robot_host),
           x_wallet_address, robot_host, payment_tx, t2),
         x_wallet_address, robot_host, payment_tx, t3, t4)

\* (mutant) the availability check is made before the result of the online
\* check is looked at
purchase_access_check_first(S, L, x_wallet_address, robot_host, payment_tx, motor_online, t1, t2, t3, t4) ==
  IF ~motor_online
  THEN [s |-> is_robot_available(S, L, t1, robot_host).s,
        l |-> is_robot_available(S, L, t1, robot_host).l,
        resp |-> HTTPException(503, "Robot '" \o robot_host
                                    \o "' is offline. Cannot create session.")]
  ELSE purchase_access_created(
         purchase_access_checked(is_robot_available(S, L, t1, robot_host),
                                 x_wallet_address, robot_host, payment_tx, t2),
         x_wallet_address, robot_host, payment_tx, t3, t4)

\* the rest of purchase_access, from the result of check_motor_online on:
\* the mappings after it and the response
purchase_access(S, L, x_wallet_address, robot_host, payment_tx, motor_online, t1, t2, t3, t4) ==
  IF ~motor_online
  THEN [s |-> S, l |-> L,
        resp |-> HTTPException(503, "Robot '" \o robot_host
                                    \o "' is offline. Cannot create session.")]
  ELSE purchase_access_created(
         purchase_access_checked(is_robot_available(S, L, t1, robot_host),
                                 x_wallet_address, robot_host, payment_tx, t2),
         x_wallet_address, robot_host, payment_tx, t3, t4)

\* the handler returns p; raced is set for the purchases it has raced
PurchaseReturn(i, p) ==
  /\ sessions' = p.s
  /\ robot_locks' = p.l
  /\ Respond(slots[i], p.resp)
  /\ slots' = [j \in Slots |->
       IF j = i THEN IdleSlot
       ELSE IF /\ p.resp.status_code = 200
               /\ slots[j].kind = "purchase"
               /\ lower(slots[j].robot) = lower(slots[i].robot)
               /\ lower(slots[j].wallet) # lower(slots[i].wallet)
            THEN [slots[j] EXCEPT !.raced = p.resp.session.expires_at]
            ELSE slots[j]]

PurchaseResume(i, motor_online, adv) ==
  /\ slots[i].kind = "purchase" /\ slots[i].pc = "await_motor"
  /\ Advance(adv)
  /\ PurchaseReturn(i, purchase_access(sessions, robot_locks, slots[i].wallet,
                                       slots[i].robot, slots[i].tx,
                                       motor_online, Read(adv, 1), Read(adv, 2),
                                       Read(adv, 3), Read(adv, 4)))
  /\ call' = NoCall
  /\ UNCHANGED <<config>>

\* ---- app/api/v1/access.py: GET /status -----------------------------------
\* return SessionResponse(active=True, ...): r is the result of
\* get_remaining_seconds
check_access_active(session, r) ==
  [s |-> r.s, l |-> r.l, resp |-> SessionResponse(session, r.ret)]

\* check_access from the result g of get_session on
check_access_found(g, x_wallet_address, t2, t3) ==
  IF g.ret = None
  THEN [s |-> g.s, l |-> g.l, resp |-> InactiveSession]
  ELSE check_access_active(The(g.ret),
                           get_remaining_seconds(g.s, g.l, t2, t3, x_wallet_address))

check_access(S, L, x_wallet_address, t1, t2, t3) ==
  IF x_wallet_address = NoHeader
  THEN [s |-> S, l |-> L, resp |-> InactiveSession]
  ELSE IF ~payment_enabled
  THEN check_access_found(get_session(S, L, t1, x_wallet_address),
                          x_wallet_address, t2, t3)
  ELSE check_access_found(get_session(S, L, t1, x_wallet_address),
                          x_wallet_address, t2, t3)

CheckAccessReturn(wallet, c) ==
  /\ sessions' = c.s
  /\ robot_locks' = c.l
  /\ last' = Answer("status", wallet, "", None,
                     [status_code |-> 200, session |-> c.resp])

\* the handler has no await: request and response are one run
CheckAccess(wallet, adv) ==
  /\ Advance(adv)
  /\ CheckAccessReturn(wallet, check_access(sessions, robot_locks, wallet,
                                            Read(adv, 1), Read(adv, 2),
                                            Read(adv, 3)))
  /\ call' = NoCall
  /\ UNCHANGED <<config, slots>>

\* ---- app/api/deps.py ------------------------------------------------------
\* require_session from the result h of has_valid_session on
require_session_checked(h, x_wallet_address) ==
  IF ~h.ret
  THEN [s |-> h.s, l |-> h.l, ret |-> None,
        exc |-> Some(HTTPException(403,
                  "No active session. Purchase access first."))]
  ELSE [s |-> h.s, l |-> h.l, ret |-> Some(x_wallet_address), exc |-> None]

\* (mutant) the session is required whatever payment_enabled is
require_session_always(S, L, t, x_wallet_address) ==
  IF x_wallet_address = NoHeader
  THEN [s |-> S, l |-> L, ret |-> None,
        exc |-> Some(HTTPException(401,
                  "Wallet address required. Include X-Wallet-Address header."))]
  ELSE require_session_checked(has_valid_session(S, L, t, x_wallet_address),
                               x_wallet_address)

\* require_session(x_wallet_address): ret is the wallet it lets through, or
\* None with the exception it raises
require_session(S, L, t, x_wallet_address) ==
  IF x_wallet_address = NoHeader
  THEN [s |-> S, l |-> L, ret |-> None,
        exc |-> Some(HTTPException(401,
                  "Wallet address required. Include X-Wallet-Address header."))]
  ELSE IF ~payment_enabled
  THEN [s |-> S, l |-> L, ret |-> Some(x_wallet_address), exc |-> None]
  ELSE require_session_checked(has_valid_session(S, L, t, x_wallet_address),
                               x_wallet_address)

\* ---- app/api/v1/robot.py: motor and camera commands ---------------------
Commands == MotorCommands \cup {"frame"}

\* require_session returns d for the request req
CommandStartReturn(i, req, d) ==
  /\ sessions' = d.s
  /\ robot_locks' = d.l
  /\ IF d.ret = None
     THEN Respond(req, The(d.exc)) /\ UNCHANGED slots
     ELSE Silent /\ slots' = [slots EXCEPT ![i] = req]

\* the request arrives and the dependency require_session runs; the handler
\* body runs in a later run of the event loop
CommandStart(i, wallet, cmd, adv) ==
  /\ Free(i)
  /\ Advance(adv)
  /\ CommandStartReturn(i, Request("command", "handler", wallet, "", cmd, None),
                        require_session(sessions, robot_locks, Read(adv, 1),
                                        wallet))
  /\ call' = NoCall
  /\ UNCHANGED <<config>>

\* the handler from the result g of get_session_robot on
command_handler_checked(g) ==
  IF g.ret = None
  THEN [s |-> g.s, l |-> g.l, ret |-> None,
        exc |-> Some(HTTPException(403, "No robot bound to session"))]
  ELSE [s |-> g.s, l |-> g.l, ret |-> g.ret, exc |-> None]

\* (mutant) the robot is read from _sessions without the expiry check
command_handler_stale(S, L, t, wallet_address) ==
  IF lower(wallet_address) \notin DOMAIN S
  THEN [s |-> S, l |-> L, ret |-> None,
        exc |-> Some(HTTPException(403, "No robot bound to session"))]
  ELSE [s |-> S, l |-> L, ret |-> Some(S[lower(wallet_address)].robot_host),
        exc |-> None]

\* motor_forward, motor_back, motor_left, motor_right, motor_stop and
\* get_camera_frame up to their await: ret is the robot the command goes to
command_handler(S, L, t, wallet_address) ==
  command_handler_checked(get_session_robot(S, L, t, wallet_address))

\* the handler has got h: it raises, or awaits the robot
CommandHandlerReturn(i, h) ==
  /\ sessions' = h.s
  /\ robot_locks' = h.l
  /\ IF h.ret = None
     THEN /\ Respond(slots[i], The(h.exc))
          /\ slots' = [slots EXCEPT ![i] = IdleSlot]
     ELSE /\ Silent
          /\ slots' = [slots EXCEPT ![i].pc = "sending",
                                    ![i].robot = The(h.ret)]

CommandHandler(i, adv) ==
  /\ slots[i].kind = "command" /\ slots[i].pc = "handler"
  /\ Advance(adv)
  /\ CommandHandlerReturn(i, command_handler(sessions, robot_locks,
                                             Read(adv, 1), slots[i].wallet))
  /\ call' = NoCall
  /\ UNCHANGED <<config>>

\* execute_motor_command / get_camera_frame after the robot has answered
\* (or the call has failed)
command_response(cmd, success) ==
  IF ~success
  THEN HTTPException(503, IF cmd = "frame" THEN "Robot camera offline"
                                           ELSE "Robot motor offline")
  ELSE IF cmd = "frame"
       THEN [status_code |-> 200, media_type |-> "image/jpeg"]
       ELSE [status_code |-> 200, status |-> "ok", command |-> cmd]

CommandDone(i, success) ==
  /\ slots[i].kind = "command" /\ slots[i].pc = "sending"
  /\ Respond(slots[i], command_response(slots[i].cmd, success))
  /\ slots' = [slots EXCEPT ![i] = IdleSlot]
  /\ call' = NoCall
  /\ UNCHANGED <<now, sessions, robot_locks, config>>

\* ---- app/api/v1/robot.py: GET /status ------------------------------------
\* (mutant) the threshold is taken as "shorter than 10"
mask_wallet_lt(wallet) ==
  IF Len(wallet) < 10
  THEN wallet
  ELSE SubSeq(wallet, 1, 6) \o "..." \o SubSeq(wallet, Len(wallet) - 3, Len(wallet))

\* _mask_wallet(wallet)
mask_wallet(wallet) ==
  IF Len(wallet) <= 10
  THEN wallet
  ELSE SubSeq(wallet, 1, 6) \o "..." \o SubSeq(wallet, Len(wallet) - 3, Len(wallet))

\* the request arrives and the handler awaits check_status(robot_host)
RobotStatusStart(i, robot) ==
  /\ Free(i)
  /\ slots' = [slots EXCEPT ![i] =
                 Request("robot_status", "await_status", NoHeader, robot, "",
                         None)]
  /\ Silent
  /\ call' = NoCall
  /\ UNCHANGED <<now, sessions, robot_locks, config>>

\* return RobotStatusResponse(...) (the fields copied from check_status are
\* left out): h is the result of the last registry call, with the holder
robot_status_response(robot_host, available, h) ==
  [s |-> h.s, l |-> h.l,
   resp |-> [status_code |-> 200, robot_host |-> robot_host,
             available |-> available,
             locked_by |-> IF h.ret # None
                           THEN Some(mask_wallet(The(h.ret)))
                           ELSE None]]

\* get_robot_status from the result a of is_robot_available on
get_robot_status_checked(a, robot_host, t2) ==
  IF a.ret
  THEN robot_status_response(robot_host, TRUE, [a EXCEPT !.ret = None])
  ELSE robot_status_response(robot_host, FALSE,
                             get_robot_lock_holder(a.s, a.l, t2, robot_host))

\* the rest of get_robot_status, from the result of check_status on
get_robot_status(S, L, robot_host, t1, t2) ==
  get_robot_status_checked(is_robot_available(S, L, t1, robot_host),
                           robot_host, t2)

RobotStatusReturn(i, g) ==
  /\ sessions' = g.s
  /\ robot_locks' = g.l
  /\ Respond(slots[i], g.resp)

RobotStatusResume(i, adv) ==
  /\ slots[i].kind = "robot_status" /\ slots[i].pc = "await_status"
  /\ Advance(adv)
  /\ RobotStatusReturn(i, get_robot_status(sessions, robot_locks,
                                           slots[i].robot, Read(adv, 1),
                                           Read(adv, 2)))
  /\ slots' = [slots EXCEPT ![i] = IdleSlot]
  /\ call' = NoCall
  /\ UNCHANGED <<config>>

\* ---- direct calls of app/services/session.py ---------------------------

StoredFor(wallet) ==
  IF lower(wallet) \in DOMAIN sessions THEN Some(sessions[lower(wallet)]) ELSE None
StoredHolder(robot) ==
  IF lower(robot) \in DOMAIN robot_locks
  THEN StoredFor(robot_locks[lower(robot)])
  ELSE None

\* the call returns r
Returns(op, wallet, robot, stored, r) ==
  /\ sessions' = r.s
  /\ robot_locks' = r.l
  /\ call' = Call(op, wallet, robot, stored, r.ret)
  /\ Silent
  /\ UNCHANGED <<now, config, slots>>

CallCreateSession(wallet, robot, tx) ==
  Returns("create_session", wallet, robot, StoredHolder(robot),
          [create_session(sessions, robot_locks, now, wallet, robot, tx)
             EXCEPT !.ret = Some(@)])

CallGetSession(wallet) ==
  Returns("get_session", wallet, "", StoredFor(wallet),
          get_session(sessions, robot_locks, now, wallet))

CallCleanupSession(wallet) ==
  Returns("_cleanup_session", wallet, "", StoredFor(wallet),
          cleanup_session(sessions, robot_locks, wallet))

CallHasValidSession(wallet) ==
  Returns("has_valid_session", wallet, "", StoredFor(wallet),
          has_valid_session(sessions, robot_locks, now, wallet))

CallGetRemainingSeconds(wallet) ==
  Returns("get_remaining_seconds", wallet, "", StoredFor(wallet),
          get_remaining_seconds(sessions, robot_locks, now, now, wallet))

CallIsRobotAvailable(robot) ==
  Returns("is_robot_available", NoHeader, robot, StoredHolder(robot),
          is_robot_available(sessions, robot_locks, now, robot))

CallGetRobotLockHolder(robot) ==
  Returns("get_robot_lock_holder", NoHeader, robot, StoredHolder(robot),
          get_robot_lock_holder(sessions, robot_locks, now, robot))

CallGetSessionRobot(wallet) ==
  Returns("get_session_robot", wallet, "", StoredFor(wallet),
          get_session_robot(sessions, robot_locks, now, wallet))

\* _mask_wallet called directly
CallMaskWallet(wallet) ==
  /\ call' = Call("_mask_wallet", wallet, "", None, Some(mask_wallet(wallet)))
  /\ Silent
  /\ UNCHANGED <<now, sessions, robot_locks, config, slots>>

\* ---- the clock -------------------------------------------------------------
Tick ==
  /\ CanTick
  /\ now' = now + 1
  /\ Silent
  /\ call' = NoCall
  /\ UNCHANGED <<sessions, robot_locks, config, slots>>

\* ---- the service ----------------------------------------------------------

\* the process as tests/conftest.py builds it: payment_enabled either way and
\* no payment middleware in front of the routers
Init ==
  /\ now = 0
  /\ sessions = EmptyDict
  /\ robot_locks = EmptyDict
  /\ payment_enabled \in BOOLEAN
  /\ payment_address = ""
  /\ x402_importable = FALSE
  /\ slots = [i \in Slots |-> IdleSlot]
  /\ last = NoResponse
  /\ call = NoCall

\* the process started with any configuration
InitPayment ==
  /\ now = 0
  /\ sessions = EmptyDict
  /\ robot_locks = EmptyDict
  /\ payment_enabled \in BOOLEAN
  /\ payment_address \in {"", PaymentAddress}
  /\ x402_importable \in BOOLEAN
  /\ slots = [i \in Slots |-> IdleSlot]
  /\ last = NoResponse
  /\ call = NoCall

\* no code of the repository sets request.state.x402_tx_hash: the handler
\* reads its default
RequestTx == {None}

Purchases(I) ==
  \/ \E i \in I, w \in RawWallets, r \in RawRobots, tx \in RequestTx,
          payment \in BOOLEAN :
       PurchaseStart(i, w, r, tx, payment)
  \/ \E i \in I, online \in BOOLEAN, adv \in 0 .. 4 :
       PurchaseResume(i, online, adv)

Statuses ==
  \E w \in RawWallets \cup {NoHeader}, adv \in 0 .. 3 : CheckAccess(w, adv)

CommandRequests(I) ==
  \/ \E i \in I, w \in RawWallets \cup {NoHeader}, c \in Commands, adv \in 0 .. 1 :
       CommandStart(i, w, c, adv)
  \/ \E i \in I, adv \in 0 .. 1 : CommandHandler(i, adv)
  \/ \E i \in I, ok \in BOOLEAN : CommandDone(i, ok)

RobotStatuses(I) ==
  \/ \E i \in I, r \in RawRobots : RobotStatusStart(i, r)
  \/ \E i \in I, adv \in 0 .. 2 : RobotStatusResume(i, adv)

\* the service with one purchase (slot 1) and one command or robot status
\* request (slot 2) in flight at a time; status requests have no await
Next ==
  \/ Tick
  \/ Purchases({1})
  \/ Statuses
  \/ CommandRequests({2})
  \/ RobotStatuses({2})

Spec == Init /\ [][Next]_vars

\* the requests that may go on for ever while a robot is held: purchases,
\* status requests and commands
NextLive ==
  \/ Tick
  \/ Purchases({1})
  \/ Statuses
  \/ \E w \in RawWallets, adv \in 0 .. 1 : CommandStart(2, w, "forward", adv)
  \/ \E adv \in 0 .. 1 : CommandHandler(2, adv)
  \/ \E ok \in BOOLEAN : CommandDone(2, ok)

\* the service under a clock that keeps advancing until it stops at MaxTime
SpecLive == Init /\ [][NextLive]_vars /\ WF_vars(Tick)

\* the service with two purchases in flight at a time, and the requests
\* that only read in between
NextRace ==
  \/ Tick
  \/ Purchases(Slots)
  \/ Statuses

SpecRace == Init /\ [][NextRace]_vars

\* the purchases of a service started with any configuration
NextPayment ==
  \/ Tick
  \/ Purchases({1})

SpecPayment == InitPayment /\ [][NextPayment]_vars

\* the functions of session.py called directly, in any order
NextRegistry ==
  \/ Tick
  \/ \E w \in RawWallets, r \in RawRobots, tx \in {None, Some(TxHash)} :
       CallCreateSession(w, r, tx)
  \/ \E w \in RawWallets : CallGetSession(w)
  \/ \E w \in RawWallets : CallCleanupSession(w)
  \/ \E w \in RawWallets : CallHasValidSession(w)
  \/ \E w \in RawWallets : CallGetRemainingSeconds(w)
  \/ \E r \in RawRobots : CallIsRobotAvailable(r)
  \/ \E r \in RawRobots : CallGetRobotLockHolder(r)
  \/ \E w \in RawWallets : CallGetSessionRobot(w)

SpecRegistry == Init /\ [][NextRegistry]_vars

\* the purchases of the service, with the query functions of session.py
\* called in between as the handlers call them: each call runs to its end
\* before anything else does
NextQueries ==
  \/ Tick
  \/ Purchases({1})
  \/ \E w \in RawWallets : CallGetSession(w)
  \/ \E w \in RawWallets : CallHasValidSession(w)
  \/ \E w \in RawWallets : CallGetRemainingSeconds(w)
  \/ \E r \in RawRobots : CallIsRobotAvailable(r)
  \/ \E r \in RawRobots : CallGetRobotLockHolder(r)
  \/ \E w \in RawWallets : CallGetSessionRobot(w)

SpecQueries == Init /\ [][NextQueries]_vars

\* the identifiers _mask_wallet is called with: every piece of MaskBase, so
\* every length up to its length, the threshold of 10 in the middle
MaskBase == "0x123456789abcde"
MaskInputs ==
  {SubSeq(MaskBase, i, j) : i \in 1 .. Len(MaskBase), j \in 0 .. Len(MaskBase)}

NextMask == \E w \in MaskInputs : CallMaskWallet(w)

SpecMask == Init /\ [][NextMask]_vars

TypeOK ==
  /\ now \in 0 .. MaxTime
  /\ DOMAIN sessions \subseteq LowerWallets
  /\ DOMAIN robot_locks \subseteq LowerRobots
  /\ payment_enabled \in BOOLEAN
  /\ payment_address \in {"", PaymentAddress}
  /\ x402_importable \in BOOLEAN

\* ---- properties -----------------------------------------------------------

\* the test get_session applies: the session has not expired at time t
Unexpired(session, t) == ~(t > session.expires_at)

\* wallet (lower case) has a stored session on robot r (lower case) that has
\* not expired at time t
Holds(S, w, r, t) ==
  w \in DOMAIN S /\ S[w].robot_host = r /\ Unexpired(S[w], t)

Holders(r) == {w \in DOMAIN sessions : Holds(sessions, w, r, now)}

StatusOf(a) == The(a.resp).status_code

IsPurchaseResponse(a) == a.kind = "purchase" /\ a.resp # None
IsCommandResponse(a) == a.kind = "command" /\ a.resp # None

\* this step is the run of purchase_access that answers a purchase
PurchaseAnswered ==
  /\ IsPurchaseResponse(last')
  /\ \E i \in Slots : slots[i].kind = "purchase" /\ slots'[i] = IdleSlot

\* C1: at every instant, each robot has at most one wallet whose stored
\* session on that robot is unexpired
C1_MutualExclusion ==
  \A r \in LowerRobots : Cardinality(Holders(r)) <= 1

\* a purchase was answered 409 and the robot it asked for has its holder
C1_Witness ==
  /\ IsPurchaseResponse(last)
  /\ StatusOf(last) = 409
  /\ Cardinality(Holders(lower(last.robot))) = 1

\* C2 (as stated): create_session(W2, R) while another wallet W1 holds an
\* unexpired session on R is rejected and leaves R locked by W1
C2_Busy ==
  /\ call.op = "create_session"
  /\ call.stored # None
  /\ The(call.stored).wallet_address # lower(call.wallet)
  /\ The(call.stored).robot_host = lower(call.robot)
  /\ Unexpired(The(call.stored), now)

C2_CreateRejectsBusy ==
  C2_Busy =>
    /\ call.ret = None
    /\ robot_locks[lower(call.robot)] = The(call.stored).wallet_address

\* C2 (amended): create_session(W2, R) while another wallet W1 holds an
\* unexpired session on R does not reject: it returns a new session on R,
\* stores it for W2, locks R for W2 and leaves W1's stored session as it was
C2_CreateOverwritesBusy ==
  C2_Busy =>
    LET w1 == The(call.stored).wallet_address
        w2 == lower(call.wallet)
        r == lower(call.robot)
    IN /\ call.ret # None
       /\ The(call.ret).wallet_address = w2
       /\ The(call.ret).robot_host = r
       /\ w2 \in DOMAIN sessions /\ sessions[w2] = The(call.ret)
       /\ r \in DOMAIN robot_locks /\ robot_locks[r] = w2
       /\ w1 \in DOMAIN sessions /\ sessions[w1] = The(call.stored)

C2_Witness ==
  /\ C2_Busy
  /\ call.ret # None
  /\ Cardinality(DOMAIN sessions) = 2

\* C3: a purchase of robot R that gets past the online check while another
\* wallet's session on R is stored and unexpired is answered 409, and
\* _sessions and _robot_locks are after it what they were before it
C3_RejectionChangesNothing ==
  [][\A w1 \in DOMAIN sessions :
       ( /\ PurchaseAnswered
         /\ StatusOf(last') # 503
         /\ w1 # lower(last'.wallet)
         /\ Holds(sessions, w1, lower(last'.robot), now') )
       => /\ StatusOf(last') = 409
          /\ sessions' = sessions
          /\ robot_locks' = robot_locks]_vars

\* a purchase was answered 409 while the wallet that asked holds another
\* robot, and still holds it
C3_Witness ==
  /\ IsPurchaseResponse(last)
  /\ StatusOf(last) = 409
  /\ \E r \in LowerRobots :
       /\ r # lower(last.robot)
       /\ Holds(sessions, lower(last.wallet), r, now)
       /\ r \in DOMAIN robot_locks /\ robot_locks[r] = lower(last.wallet)

\* C4 (as stated): of two purchases of the same robot by different wallets
\* that were in flight together, the one that resumes second never succeeds
\* within the time of the session the first one created
C4_NeverBothSucceed ==
  ~( /\ IsPurchaseResponse(last)
     /\ last.raced # None
     /\ StatusOf(last) = 200
     /\ now <= The(last.raced) )

\* C4 (amended): of two purchases of the same robot by different wallets
\* that were in flight together, the one that resumes second is rejected
\* whenever another wallet's session on the robot is still stored and
\* unexpired when it resumes
C4_SecondRejectedWhileHeld ==
  ( /\ IsPurchaseResponse(last)
    /\ last.raced # None
    /\ \E w \in DOMAIN sessions :
         /\ w # lower(last.wallet)
         /\ Holds(sessions, w, lower(last.robot), now) )
  => StatusOf(last) \in {409, 503}

C4_Witness ==
  /\ IsPurchaseResponse(last)
  /\ last.raced # None
  /\ StatusOf(last) = 409
  /\ now <= The(last.raced)

\* the robots wallet w (lower case) is bound to: the robot of its unexpired
\* session, and every robot whose lock it owns while its session is unexpired
RobotsBoundTo(w) ==
  IF w \in DOMAIN sessions /\ Unexpired(sessions[w], now)
  THEN {sessions[w].robot_host}
         \cup {r \in DOMAIN robot_locks : robot_locks[r] = w}
  ELSE {}

\* C5: in every reachable state each wallet, whatever the case it was sent
\* in, has one entry in _sessions at most, and a wallet with an unexpired
\* session is bound to one robot only (its session's, which is the only lock
\* it owns)
C5_SingleLeasePerWallet ==
  /\ DOMAIN sessions \subseteq LowerWallets
  /\ \A w \in DOMAIN sessions : sessions[w].wallet_address = w
  /\ \A w \in LowerWallets : Cardinality(RobotsBoundTo(w)) <= 1

\* a purchase has been answered 200 and each robot has its holder, so each
\* wallet holds an unexpired session
C5_Witness ==
  /\ IsPurchaseResponse(last)
  /\ StatusOf(last) = 200
  /\ \A r \in LowerRobots : Cardinality(Holders(r)) = 1
  /\ \A w \in LowerWallets : Cardinality(RobotsBoundTo(w)) = 1

\* C6: when a wallet that holds an unexpired session on R1 gets a purchase
\* of another robot R2 answered 200, then get_session_robot(wallet) returns
\* R2, is_robot_available(R1) returns true and _robot_locks has no entry
\* for R1 owned by the wallet
C6_SwitchReleasesOld ==
  [][\A w \in DOMAIN sessions :
       ( /\ PurchaseAnswered
         /\ StatusOf(last') = 200
         /\ w = lower(last'.wallet)
         /\ Unexpired(sessions[w], now)
         /\ sessions[w].robot_host # lower(last'.robot) )
       => LET r1 == sessions[w].robot_host
              r2 == lower(last'.robot)
          IN /\ get_session_robot(sessions', robot_locks', now', w).ret = Some(r2)
             /\ is_robot_available(sessions', robot_locks', now', r1).ret
             /\ ~(r1 \in DOMAIN robot_locks' /\ robot_locks'[r1] = w)]_vars

\* a command of the wallet is on its way to R1 (the wallet held R1 at the
\* handler's check) when the wallet's purchase of R2 is answered 200
C6_Witness ==
  /\ IsPurchaseResponse(last)
  /\ StatusOf(last) = 200
  /\ \E i \in Slots :
       /\ slots[i].pc = "sending"
       /\ lower(slots[i].wallet) = lower(last.wallet)
       /\ slots[i].robot # lower(last.robot)
       /\ slots[i].robot \notin DOMAIN robot_locks
       /\ Holds(sessions, lower(last.wallet), lower(last.robot), now)
       /\ now = 0

\* C7 (as stated): a call of get_session(wallet) or
\* get_robot_lock_holder(robot) made when now >= expires_at of the session
\* it looks up, the instant now = expires_at included, reports absence
C7_AbsentFromExpiresAt ==
  ( /\ call.op \in {"get_session", "get_robot_lock_holder"}
    /\ call.stored # None
    /\ now >= The(call.stored).expires_at )
  => call.ret = None

\* C7 (amended): a call of get_session(wallet) or
\* get_robot_lock_holder(robot) made when now > expires_at of the session it
\* looks up reports absence and removes the session, so that every later
\* call finds nothing stored and reports absence too; at the instant
\* now = expires_at the session is still reported
C7_AbsentAfterExpiresAt ==
  /\ ( call.op \in {"get_session", "get_robot_lock_holder"}
       /\ call.stored = None ) => call.ret = None
  /\ ( /\ call.op \in {"get_session", "get_robot_lock_holder"}
       /\ call.stored # None
       /\ now > The(call.stored).expires_at )
     => /\ call.ret = None
        /\ The(call.stored).wallet_address \notin DOMAIN sessions
  /\ ( /\ call.op = "get_session"
       /\ call.stored # None
       /\ now <= The(call.stored).expires_at )
     => call.ret = call.stored
  /\ ( /\ call.op = "get_robot_lock_holder"
       /\ call.stored # None
       /\ now <= The(call.stored).expires_at )
     => call.ret = Some(The(call.stored).wallet_address)

\* a session is looked up at the instant now = expires_at
C7_Witness ==
  /\ call.op = "get_robot_lock_holder"
  /\ call.stored # None
  /\ now = The(call.stored).expires_at
  /\ call.ret # None

\* C8: a purchase of robot R by wallet C2 that gets past the online check
\* when the stored session of another wallet C1 on R has expired is answered
\* 200; after it R is locked by C2, C1 owns no lock and
\* get_session_robot(C1) returns absent
C8_TakeOverAfterExpiry ==
  [][\A c1 \in DOMAIN sessions :
       ( /\ PurchaseAnswered
         /\ StatusOf(last') # 503
         /\ c1 # lower(last'.wallet)
         /\ sessions[c1].robot_host = lower(last'.robot)
         /\ now > sessions[c1].expires_at )
       => LET r == lower(last'.robot)
              c2 == lower(last'.wallet)
          IN /\ StatusOf(last') = 200
             /\ r \in DOMAIN robot_locks' /\ robot_locks'[r] = c2
             /\ \A x \in DOMAIN robot_locks' : robot_locks'[x] # c1
             /\ Holds(sessions', c2, r, now')
             /\ get_session_robot(sessions', robot_locks', now', c1).ret = None]_vars

\* a command of C1 is still on its way to R (C1 held R at the handler's
\* check) when C2's purchase of R is answered 200
C8_Witness ==
  /\ IsPurchaseResponse(last)
  /\ StatusOf(last) = 200
  /\ \E i \in Slots :
       /\ slots[i].pc = "sending"
       /\ slots[i].robot = lower(last.robot)
       /\ lower(slots[i].wallet) # lower(last.wallet)
       /\ lower(slots[i].wallet) \notin DOMAIN sessions
       /\ robot_locks[lower(last.robot)] = lower(last.wallet)

\* this step runs the handler of the command in slot i up to its await
HandlerRuns(i) == slots[i].pc = "handler" /\ slots'[i] # slots[i]

\* C9: a command goes out to robot R for wallet W only if, at the handler's
\* check (the handler reads the clock once, so the step ends at the time it
\* read), W has a stored unexpired session on R; the handler of a wallet
\* with no unexpired session answers 403 and sends nothing, and with
\* payment_enabled such a wallet does not get as far as the handler
C9_CommandAuthorized ==
  [][\A i \in Slots :
       /\ (slots[i].pc # "sending" /\ slots'[i].pc = "sending")
          => /\ HandlerRuns(i)
             /\ slots'[i].wallet # NoHeader
             /\ Holds(sessions, lower(slots'[i].wallet), slots'[i].robot, now')
       /\ ( /\ HandlerRuns(i)
            /\ \A r \in LowerRobots :
                 ~Holds(sessions, lower(slots[i].wallet), r, now') )
          => /\ slots'[i] = IdleSlot
             /\ IsCommandResponse(last')
             /\ StatusOf(last') = 403
       /\ (slots[i].pc = "idle" /\ slots'[i].pc = "handler" /\ payment_enabled)
          => \E r \in LowerRobots :
               Holds(sessions, lower(slots'[i].wallet), r, now)]_vars

\* a command is on its way to the robot its wallet holds, and the other
\* wallet has just been refused
C9_Witness ==
  \E i \in Slots :
    /\ slots[i].pc = "sending"
    /\ Holds(sessions, lower(slots[i].wallet), slots[i].robot, now)
    /\ IsPurchaseResponse(last)
    /\ StatusOf(last) = 409
    /\ lower(last.robot) = slots[i].robot

\* this step answers a command before anything is sent to a robot
CommandRefused ==
  /\ IsCommandResponse(last')
  /\ \A i \in Slots : slots[i].pc # "sending" \/ slots'[i].pc = "sending"
RefusedByHandler == \E i \in Slots : HandlerRuns(i)

C11_NoRevocation ==
  [][\A w1 \in DOMAIN sessions :
       Unexpired(sessions[w1], now')
       => \/ /\ w1 \in DOMAIN sessions'
             /\ sessions'[w1] = sessions[w1]
             /\ sessions[w1].robot_host \in DOMAIN robot_locks'
             /\ robot_locks'[sessions[w1].robot_host] = w1
          \/ /\ PurchaseAnswered
             /\ StatusOf(last') = 200
             /\ lower(last'.wallet) = w1
             /\ lower(last'.robot) # sessions[w1].robot_host]_vars

\* the other wallet has asked for the robot W1 holds and was refused, after
\* W1's session had lasted a tick
C11_Witness ==
  /\ IsPurchaseResponse(last)
  /\ StatusOf(last) = 409
  /\ \E w1 \in DOMAIN sessions :
       /\ w1 # lower(last.wallet)
       /\ Holds(sessions, w1, lower(last.robot), now)
       /\ sessions[w1].created_at < now
       /\ robot_locks[lower(last.robot)] = w1
       /\ lower(last.wallet) \notin DOMAIN sessions

\* the unexpired sessions stored
ActiveSessions ==
  {sessions[w] : w \in {x \in DOMAIN sessions : Unexpired(sessions[x], now)}}

\* C12: in every reachable state every unexpired stored session is stored
\* under its own wallet_address, _robot_locks maps its robot_host to its
\* wallet_address, and no two unexpired sessions have the same wallet or the
\* same robot
C12_Bijection ==
  /\ \A w \in DOMAIN sessions :
       Unexpired(sessions[w], now)
       => /\ sessions[w].wallet_address = w
          /\ sessions[w].robot_host \in DOMAIN robot_locks
          /\ robot_locks[sessions[w].robot_host] = w
  /\ \A x, y \in ActiveSessions :
       (x.wallet_address = y.wallet_address \/ x.robot_host = y.robot_host)
       => x = y

\* two wallets hold the two robots, as a robot status request has just shown
C12_Witness ==
  /\ Cardinality(ActiveSessions) = 2
  /\ DOMAIN robot_locks = LowerRobots
  /\ last.kind = "robot_status"
  /\ last.resp # None

IsStatusResponse(a) == a.kind = "status" /\ a.resp # None
SessionOf(a) == The(a.resp).session

\* this step is a run of check_access
StatusAnswered == IsStatusResponse(last') /\ slots' = slots

\* the wallet (as sent) has no stored session that is unexpired at time t
NoSessionAt(wallet, t) ==
  \/ wallet = NoHeader
  \/ lower(wallet) \notin DOMAIN sessions
  \/ ~Unexpired(sessions[lower(wallet)], t)

\* C13 (as stated): a status response that is not active has no robot and
\* remaining_seconds = 0
C13_InactiveRemainingZero ==
  (IsStatusResponse(last) /\ ~SessionOf(last).active)
  => /\ SessionOf(last).robot_host = None
     /\ SessionOf(last).remaining_seconds = Some(0)

\* C13 (amended): the status of a wallet that has no unexpired session when
\* the request arrives (never purchased, session expired, no wallet header)
\* is active=false with robot_host, expires_at and remaining_seconds all
\* absent
C13_InactiveStatus ==
  [][(StatusAnswered /\ NoSessionAt(last'.wallet, now))
     => /\ StatusOf(last') = 200
        /\ ~SessionOf(last').active
        /\ SessionOf(last').robot_host = None
        /\ SessionOf(last').expires_at = None
        /\ SessionOf(last').remaining_seconds = None]_vars

\* a wallet with a header and nothing stored is told it has no session,
\* late enough for a session to have run out
C13_Witness ==
  /\ IsStatusResponse(last)
  /\ last.wallet # NoHeader
  /\ ~SessionOf(last).active
  /\ SessionOf(last).remaining_seconds = None
  /\ lower(last.wallet) \notin DOMAIN sessions
  /\ now > SessionDuration

\* C14: get_remaining_seconds called at clock time t for a wallet with an
\* unexpired session returns the whole seconds of expires_at - t (the
\* fraction of a second is dropped), which is not negative and not more
\* than the session duration; for a wallet with no unexpired session it
\* returns 0
C14_RemainingSeconds ==
  call.op = "get_remaining_seconds"
  => IF call.stored # None /\ Unexpired(The(call.stored), now)
     THEN /\ call.ret \in Nat
          /\ call.ret * TicksPerSecond <= The(call.stored).expires_at - now
          /\ The(call.stored).expires_at - now < (call.ret + 1) * TicksPerSecond
          /\ call.ret * TicksPerSecond <= SessionDuration
     ELSE call.ret = 0

\* the remaining time is not a whole number of seconds
C14_Witness ==
  /\ call.op = "get_remaining_seconds"
  /\ call.stored # None
  /\ Unexpired(The(call.stored), now)
  /\ call.ret * TicksPerSecond < The(call.stored).expires_at - now

\* a purchase or status response that reports active=true
ReportsActive(a) ==
  \/ IsStatusResponse(a) /\ SessionOf(a).active
  \/ IsPurchaseResponse(a) /\ StatusOf(a) = 200

\* C15 (as stated): a purchase response or a status response that reports
\* active=true reports remaining_seconds > 0
C15_ActiveRemainingPositive ==
  ReportsActive(last) => The(SessionOf(last).remaining_seconds) > 0

\* C15 (amended): a response that reports active=true reports
\* remaining_seconds = 0 exactly when less than one second of the session is
\* left as the handler returns (the fraction of a second is dropped; the
\* session may have run out since get_session looked at it), and more than
\* 0 otherwise; a purchase response, whose session has just been created
\* with a duration of more than a second, reports more than 0
C15_ActiveRemaining ==
  ReportsActive(last)
  => /\ The(SessionOf(last).remaining_seconds) \in Nat
     /\ The(SessionOf(last).remaining_seconds) = 0
          <=> The(SessionOf(last).expires_at) - now < TicksPerSecond
     /\ IsPurchaseResponse(last) => The(SessionOf(last).remaining_seconds) > 0

\* a status response reports an active session with 0 seconds remaining
\* before the session's expires_at
C15_Witness ==
  /\ IsStatusResponse(last)
  /\ SessionOf(last).active
  /\ SessionOf(last).remaining_seconds = Some(0)
  /\ now < The(SessionOf(last).expires_at)

IsRobotStatusResponse(a) == a.kind = "robot_status" /\ a.resp # None

\* this step is the run of get_robot_status that answers the request
RobotStatusAnswered ==
  /\ IsRobotStatusResponse(last')
  /\ \E i \in Slots : slots[i].kind = "robot_status" /\ slots'[i] = IdleSlot

\* the robot status response resp for robot r (lower case) is the one that
\* goes with the stored sessions S at time t
StatusMatches(resp, S, r, t) ==
  IF \E w \in DOMAIN S : Holds(S, w, r, t)
  THEN /\ ~resp.available
       /\ \E w \in DOMAIN S :
            Holds(S, w, r, t) /\ resp.locked_by = Some(mask_wallet(w))
  ELSE /\ resp.available
       /\ resp.locked_by = None

\* C16: the robot status of R reports available=false and locked_by = the
\* masked wallet of the holder exactly when some wallet has an unexpired
\* session on R, and available=true with locked_by absent otherwise, the
\* sessions taken as the handler finds them at the clock time it starts
\* with or at the one it ends with
C16_RobotStatus ==
  [][RobotStatusAnswered
     => \/ StatusMatches(The(last'.resp), sessions, lower(last'.robot), now)
        \/ StatusMatches(The(last'.resp), sessions, lower(last'.robot), now')]_vars

\* C17: _mask_wallet of an identifier longer than 10 characters is 13
\* characters long: the identifier's first 6 characters, then '...', then
\* its last 4 characters; an identifier of at most 10 characters is returned
\* as it is
C17_Masking ==
  call.op = "_mask_wallet"
  => LET w == call.wallet
         m == The(call.ret)
     IN IF Len(w) > 10
        THEN /\ Len(m) = 13
             /\ \A k \in 1 .. 6 : SubSeq(m, k, k) = SubSeq(w, k, k)
             /\ \A k \in 7 .. 9 : SubSeq(m, k, k) = "."
             /\ \A k \in 10 .. 13 :
                  SubSeq(m, k, k) = SubSeq(w, Len(w) - 13 + k, Len(w) - 13 + k)
        ELSE m = w

\* an identifier of 11 characters, the shortest that is masked
C17_Witness ==
  /\ call.op = "_mask_wallet"
  /\ Len(call.wallet) = 11
  /\ Len(The(call.ret)) = 13
  /\ The(call.ret) # call.wallet

\* C18: _cleanup_session of a wallet that has no stored session returns
\* without error and leaves _sessions and _robot_locks as they are; after
\* any call of _cleanup_session the wallet has no stored session, so a
\* second call changes nothing
C18_IdempotentRelease ==
  [][call'.op = "_cleanup_session"
     => /\ call'.ret = None
        /\ lower(call'.wallet) \notin DOMAIN sessions'
        /\ lower(call'.wallet) \notin DOMAIN sessions
             => sessions' = sessions /\ robot_locks' = robot_locks]_vars

\* _cleanup_session has been called for a wallet with nothing stored, while
\* the other wallet has a session and its lock
C18_Witness ==
  /\ call.op = "_cleanup_session"
  /\ call.stored = None
  /\ Cardinality(DOMAIN sessions) = 1
  /\ Cardinality(DOMAIN robot_locks) = 1

\* C19: a purchase answered 503 (the motor liveness check has failed)
\* leaves _sessions and _robot_locks as they are, expired entries included:
\* no availability check has run, no session and no lock is created or
\* removed
C19_OfflineChangesNothing ==
  [][(PurchaseAnswered /\ StatusOf(last') = 503)
     => /\ sessions' = sessions
        /\ robot_locks' = robot_locks
        /\ The(last'.resp).detail
             = "Robot '" \o last'.robot \o "' is offline. Cannot create session."]_vars

\* a purchase is answered 503 while the robot's previous holder has an
\* expired session stored, which an availability check would have removed
C19_Witness ==
  /\ IsPurchaseResponse(last)
  /\ StatusOf(last) = 503
  /\ \E w \in DOMAIN sessions :
       /\ w # lower(last.wallet)
       /\ sessions[w].robot_host = lower(last.robot)
       /\ now > sessions[w].expires_at
       /\ robot_locks[lower(last.robot)] = w

\* C20: when payment_enabled is true, a purchase creates a session only
\* after the x402 payment step has accepted the request, whatever the rest
\* of the configuration is (payment address missing, x402 not importable):
\* every purchase answered 200 under payment_enabled is one the x402
\* middleware has accepted
C20_SessionOnlyAfterPayment ==
  (payment_enabled /\ IsPurchaseResponse(last) /\ StatusOf(last) = 200)
    => last.paid


\* the same call with both identifiers in lower case gives the same
\* mappings and the same return value
SameInLowerCase(w, r) ==
  /\ \A tx \in {None, Some(TxHash)} :
       create_session(sessions, robot_locks, now, w, r, tx)
         = create_session(sessions, robot_locks, now, lower(w), lower(r), tx)
  /\ get_session(sessions, robot_locks, now, w)
       = get_session(sessions, robot_locks, now, lower(w))
  /\ cleanup_session(sessions, robot_locks, w)
       = cleanup_session(sessions, robot_locks, lower(w))
  /\ has_valid_session(sessions, robot_locks, now, w)
       = has_valid_session(sessions, robot_locks, now, lower(w))
  /\ get_remaining_seconds(sessions, robot_locks, now, now, w)
       = get_remaining_seconds(sessions, robot_locks, now, now, lower(w))
  /\ get_session_robot(sessions, robot_locks, now, w)
       = get_session_robot(sessions, robot_locks, now, lower(w))
  /\ is_robot_available(sessions, robot_locks, now, r)
       = is_robot_available(sessions, robot_locks, now, lower(r))
  /\ get_robot_lock_holder(sessions, robot_locks, now, r)
       = get_robot_lock_holder(sessions, robot_locks, now, lower(r))

\* C21: identifiers are case-insensitive: in every state a sequence of
\* calls of session.py leads to, each function called with a wallet address
\* or a robot host gives the same result and the same stored state as when
\* called with the variant in lower case (so any two variants that differ
\* in letter case only are interchangeable at every call of a sequence)
C21_CaseInsensitive ==
  \A w \in RawWallets, r \in RawRobots : SameInLowerCase(w, r)

\* a session created under identifiers in mixed case is stored and locked
\* under the lower-case ones
C21_Witness ==
  /\ call.op = "create_session"
  /\ call.wallet # lower(call.wallet)
  /\ call.robot # lower(call.robot)
  /\ lower(call.wallet) \in DOMAIN sessions
  /\ lower(call.robot) \in DOMAIN robot_locks
  /\ robot_locks[lower(call.robot)] = lower(call.wallet)


\* C22: is_robot_available(R) is true iff get_robot_lock_holder(R) is
\* absent, and no robot status response reports available=false together
\* with locked_by absent, also when the holder's session expires between
\* the handler's availability check and its holder lookup
C22_AvailableIffNoHolder ==
  /\ \A r \in RawRobots :
       is_robot_available(sessions, robot_locks, now, r).ret
         = (get_robot_lock_holder(sessions, robot_locks, now, r).ret = None)
  /\ IsRobotStatusResponse(last)
       => ~(~The(last.resp).available /\ The(last.resp).locked_by = None)


\* C23: when get_session(W) finds the stored session of W expired it
\* returns absent and the same call removes the entry of W in _sessions and
\* the entry of the session's robot in _robot_locks; when the session is not
\* expired it returns the stored session and both entries stay
C23_LazyExpiryOnHolderRead ==
  (call.op = "get_session" /\ call.stored # None)
  => IF now > The(call.stored).expires_at
     THEN /\ call.ret = None
          /\ lower(call.wallet) \notin DOMAIN sessions
          /\ The(call.stored).robot_host \notin DOMAIN robot_locks
     ELSE /\ call.ret = call.stored
          /\ lower(call.wallet) \in DOMAIN sessions
          /\ sessions[lower(call.wallet)] = The(call.stored)
          /\ The(call.stored).robot_host \in DOMAIN robot_locks
          /\ robot_locks[The(call.stored).robot_host] = lower(call.wallet)

\* get_session has found an expired session and removed it, while the other
\* wallet keeps its unexpired session and its lock
C23_Witness ==
  /\ call.op = "get_session"
  /\ call.stored # None
  /\ now > The(call.stored).expires_at
  /\ call.ret = None
  /\ Cardinality(DOMAIN sessions) = 1
  /\ Cardinality(DOMAIN robot_locks) = 1


\* C24: in every reachable state, after is_robot_available(R) has returned
\* true or get_robot_lock_holder(R) has returned absent, _robot_locks has no
\* entry for R
C24_LazyExpiryOnResourceRead ==
  ( \/ (call.op = "is_robot_available" /\ call.ret = TRUE)
    \/ (call.op = "get_robot_lock_holder" /\ call.ret = None) )
  => lower(call.robot) \notin DOMAIN robot_locks

\* the robot was locked by a wallet whose session had expired: the call has
\* reported it free and has removed the session and the lock
C24_Witness ==
  /\ \/ (call.op = "is_robot_available" /\ call.ret = TRUE)
     \/ (call.op = "get_robot_lock_holder" /\ call.ret = None)
  /\ call.stored # None
  /\ The(call.stored).robot_host = lower(call.robot)
  /\ now > The(call.stored).expires_at
  /\ The(call.stored).wallet_address \notin DOMAIN sessions
  /\ lower(call.robot) \notin DOMAIN robot_locks


\* C25: no renewal while active: a step of any request that starts and ends
\* within the time of the unexpired session of W on R leaves that session,
\* if W is still bound to R after the step, with its created_at and
\* expires_at; a purchase of R by W answered within that time is rejected.
\* So W gets a session on R with a new created_at only after the previous
\* one has expired or has been released
C25_NoRenewalWhileActive ==
  [][\A w \in DOMAIN sessions :
       Holds(sessions, w, sessions[w].robot_host, now')
       => /\ ( /\ w \in DOMAIN sessions'
               /\ sessions'[w].robot_host = sessions[w].robot_host )
             => sessions'[w] = sessions[w]
          /\ ( /\ PurchaseAnswered
               /\ lower(last'.wallet) = w
               /\ lower(last'.robot) = sessions[w].robot_host )
             => StatusOf(last') \in {409, 503}]_vars

\* the wallet has asked for the robot it holds, after the clock has moved
\* on, and has been answered that the robot is in use; its session is the
\* one it had
C25_Witness ==
  /\ IsPurchaseResponse(last)
  /\ StatusOf(last) = 409
  /\ Holds(sessions, lower(last.wallet), lower(last.robot), now)
  /\ sessions[lower(last.wallet)].created_at < now


\* the two mappings S and L go together: every stored session has the lock
\* of its robot and every lock belongs to a stored session on that robot
Paired(S, L) ==
  /\ \A w \in DOMAIN S :
       S[w].robot_host \in DOMAIN L /\ L[S[w].robot_host] = w
  /\ \A r \in DOMAIN L :
       L[r] \in DOMAIN S /\ S[L[r]].robot_host = r

\* the purchase answered in this step finds the stored session old on the
\* robot it asks for and ends in one of two ways: rejected with both mappings
\* as they were, or accepted with old removed and the new session and its
\* lock installed, the new session created after old has expired
PurchaseOutcome(old) ==
  \/ /\ StatusOf(last') \in {409, 503}
     /\ sessions' = sessions
     /\ robot_locks' = robot_locks
  \/ /\ StatusOf(last') = 200
     /\ old.wallet_address # lower(last'.wallet)
          => old.wallet_address \notin DOMAIN sessions'
     /\ lower(last'.wallet) \in DOMAIN sessions'
     /\ sessions'[lower(last'.wallet)].robot_host = lower(last'.robot)
     /\ sessions'[lower(last'.wallet)].created_at > old.expires_at
     /\ lower(last'.robot) \in DOMAIN robot_locks'
     /\ robot_locks'[lower(last'.robot)] = lower(last'.wallet)

\* C26: a purchase of R that meets the stored session of R's previous
\* holder, which the read of any handler in flight may release once it has
\* expired, ends with the old session and its lock both intact and the
\* purchase rejected, or with both removed and the new session and its lock
\* both installed; and no step of any handler leaves one mapping updated
\* without the other
C26_PurchaseRacingRelease ==
  [][/\ Paired(sessions', robot_locks')
     /\ PurchaseAnswered
          => \A w \in DOMAIN sessions :
               sessions[w].robot_host = lower(last'.robot)
               => PurchaseOutcome(sessions[w])]_vars

\* the race is on: the session of the robot's previous holder has expired
\* and is still stored with its lock, a purchase of the robot by another
\* wallet and a robot status request for it are both suspended, and either
\* may resume first
C26_Witness ==
  /\ slots[1].kind = "purchase" /\ slots[1].pc = "await_motor"
  /\ slots[2].kind = "robot_status" /\ slots[2].pc = "await_status"
  /\ lower(slots[2].robot) = lower(slots[1].robot)
  /\ lower(slots[1].robot) \in DOMAIN robot_locks
  /\ robot_locks[lower(slots[1].robot)] # lower(slots[1].wallet)
  /\ robot_locks[lower(slots[1].robot)] \in DOMAIN sessions
  /\ now > sessions[robot_locks[lower(slots[1].robot)]].expires_at


\* C27: every stored session has expires_at = created_at + the configured
\* session duration (600 seconds when it is the 10 minutes of the default);
\* a session appears or changes in _sessions only by a purchase of its
\* wallet answered 200, with created_at the clock value create_session has
\* read during that step, so the two fields of a stored session never change
C27_SessionTimes ==
  [][/\ int_total_seconds(timedelta_minutes(session_duration_minutes)) = 600
     /\ \A w \in DOMAIN sessions' :
          /\ sessions'[w].expires_at = sessions'[w].created_at + SessionDuration
          /\ (w \notin DOMAIN sessions \/ sessions'[w] # sessions[w])
             => /\ PurchaseAnswered
                /\ StatusOf(last') = 200
                /\ lower(last'.wallet) = w
                /\ sessions'[w].created_at \in {now, now'}]_vars

\* a purchase has been answered 200 after the clock has moved on by more
\* than a session's duration: the session stored for the wallet was created
\* at the time of that purchase and expires one duration later
C27_Witness ==
  /\ IsPurchaseResponse(last)
  /\ StatusOf(last) = 200
  /\ lower(last.wallet) \in DOMAIN sessions
  /\ sessions[lower(last.wallet)].created_at = now
  /\ sessions[lower(last.wallet)].expires_at = now + SessionDuration
  /\ now > SessionDuration


QueryOperations ==
  {"get_session", "has_valid_session", "get_remaining_seconds",
   "get_session_robot", "is_robot_available", "get_robot_lock_holder"}

\* C28: a call of a query operation changes _sessions and _robot_locks only
\* by removing the session it looks up, when that session has expired,
\* together with the lock entry of the session's robot; when the session it
\* looks up has not expired, or there is none, both mappings are left as
\* they were
C28_QueriesOnlyExpire ==
  [][call'.op \in QueryOperations
     => IF call'.stored # None /\ now > The(call'.stored).expires_at
        THEN /\ sessions' = Del(sessions, The(call'.stored).wallet_address)
             /\ robot_locks' = Del(robot_locks, The(call'.stored).robot_host)
             /\ The(call'.stored).wallet_address \in DOMAIN sessions
             /\ The(call'.stored).robot_host \in DOMAIN robot_locks
        ELSE /\ sessions' = sessions
             /\ robot_locks' = robot_locks]_vars

\* get_session_robot has looked up an expired session: it has returned
\* absent, and the session and its lock are gone while the other wallet's are
\* still there
C28_Witness ==
  /\ call.op = "get_session_robot"
  /\ call.stored # None
  /\ now > The(call.stored).expires_at
  /\ call.ret = None
  /\ The(call.stored).wallet_address \notin DOMAIN sessions
  /\ The(call.stored).robot_host \notin DOMAIN robot_locks
  /\ Cardinality(DOMAIN sessions) = 1
  /\ Paired(sessions, robot_locks)


\* C29: no orphan lock: in every state the purchases, status requests,
\* commands and robot status requests of the service and the clock lead to,
\* every entry _robot_locks[R] = W, expired or not, has a stored session
\* _sessions[W] whose robot_host is R, and every stored session has its lock
\* entry; hence is_robot_available(R) returns false only when the session of
\* the lock's owner is an unexpired session on R
C29_NoOrphanLock ==
  /\ Paired(sessions, robot_locks)
  /\ \A r \in RawRobots :
       ~is_robot_available(sessions, robot_locks, now, r).ret
       => /\ lower(r) \in DOMAIN robot_locks
          /\ Holds(sessions, robot_locks[lower(r)], lower(r), now)

\* both robots are locked, one by a wallet whose session has expired and is
\* still stored, the other by a wallet whose session has not, and a status
\* request has just been answered
C29_Witness ==
  /\ DOMAIN robot_locks = LowerRobots
  /\ \E r \in LowerRobots : now > sessions[robot_locks[r]].expires_at
  /\ \E r \in LowerRobots : Holds(sessions, robot_locks[r], r, now)
  /\ IsStatusResponse(last)


\* robot r (lower case) is locked by a wallet whose stored session expires
\* at e
HeldUntil(r, e) ==
  /\ r \in DOMAIN robot_locks
  /\ robot_locks[r] \in DOMAIN sessions
  /\ sessions[robot_locks[r]].expires_at = e

\* the hold of r that ends at e is over: r is reported available to whoever
\* asks now, or is held by a session created after e
HoldOver(r, e) ==
  \/ is_robot_available(sessions, robot_locks, now, r).ret
  \/ \E e2 \in (e + 1) .. (MaxTime + SessionDuration) :
       HeldUntil(r, e2) /\ sessions[robot_locks[r]].created_at > e

\* C30: every hold ends: under a clock that keeps advancing, a robot held by
\* a session that expires at e (before the clock stops) gets to a state in
\* which that hold is over, whatever status requests, commands and
\* purchases are made meanwhile; and in every state in which the clock has
\* passed the expires_at of the session a robot is locked by, the robot is
\* reported available
C30_EveryHoldEnds ==
  /\ \A r \in LowerRobots, e \in SessionDuration .. (MaxTime - 1) :
       HeldUntil(r, e) ~> HoldOver(r, e)
  /\ [](\A r \in LowerRobots, e \in SessionDuration .. MaxTime :
          (HeldUntil(r, e) /\ now > e)
          => is_robot_available(sessions, robot_locks, now, r).ret)

\* the session a robot is locked by has expired and is still stored; the
\* robot is reported available, and the purchase of it by another wallet is
\* suspended
C30_Witness ==
  \E r \in LowerRobots :
    /\ HeldUntil(r, SessionDuration)
    /\ now > SessionDuration
    /\ is_robot_available(sessions, robot_locks, now, r).ret
    /\ slots[1].pc = "await_motor"
    /\ lower(slots[1].robot) = r
    /\ lower(slots[1].wallet) # robot_locks[r]

====
